---- MODULE Spec2Model ----
(***************************************************************************)
(* ScreenMonitor of chrome_extension/background.js: the stuck-detection    *)
(* and assistance-triggering engine.  State = the fields of the monitor    *)
(* object, the browser's table of pending timers, the Oracle requests in   *)
(* flight and the clock.  Time is in milliseconds, as in the source.       *)
(***************************************************************************)
EXTENDS Integers, Sequences, FiniteSets, Bags, TLC

VARIABLES
    initialized,      \* init() has completed (listeners are installed)
    isMonitoring,     \* this.isMonitoring
    assistanceTimer,  \* this.assistanceTimer: NULL or an interval id
    userPreferences,  \* this.userPreferences
    lastActivity,     \* this.lastActivity
    stuckDetection,   \* this.stuckDetection
    timers,           \* the browser's pending setInterval/setTimeout entries (a bag)
    pageText,         \* what document.body.innerText shows of the last run result
    userCode,         \* the editor's text, as checkCodeValidity sees it
    leetcoachChat,    \* window.leetcoachChat: whether it is there with its getHint, and
                      \* the automatic calls of getHint made so far
    events,           \* number of user, page and Oracle inputs taken so far
    inFlight,         \* Oracle requests awaiting their response, per trigger
    hidden,           \* document.hidden
    now,              \* Date.now()
    lastEvent,        \* the handler that ran last, the offer it emitted, the Oracle's part,
                      \* the value it returned or put in the context it sent
    lastOfferAt,      \* clock reading at the most recent offer, or Never
    stuckOffers,      \* 'stuck_detection' offers since the start or the last activity
    failRun           \* what the test-result checks saw: the consecutive failing ticks that
                      \* began at errorCount = 0, and a passed result still on the page

vars == <<initialized, isMonitoring, assistanceTimer, userPreferences,
          lastActivity, stuckDetection, timers, pageText, userCode, leetcoachChat,
          events, inFlight,
          hidden, now, lastEvent, lastOfferAt, stuckOffers, failRun>>

----------------------------------------------------------------------------
(* Bounds of the model *)

MaxTicks == 13        \* poll periods in a run without inputs
EventCost == 3        \* poll periods by which each input shortens the run
MaxPolls == 2         \* stuck-poll intervals that may exist at once
MaxInFlight == 1      \* Oracle requests of one trigger awaiting an answer
MaxStored == 305      \* largest assistanceDelay found in storage
MaxCount == 6         \* largest value of a counter handed to isUserStuck
MaxOffers == 3        \* calls of triggerAssistance followed for their automatic hint
MaxRetries == 6       \* retry delays for which such a run lasts

(* Constants of the program *)

NULL == 0
Never == 0 - 1
PollPeriod == 5000            \* setInterval(..., 5000) of the stuck poll
TestPeriod == 5000            \* setInterval(check, 5000)
InactivityWindow == 30000     \* timeSinceActivity > 30000
DomFirstDelay == 30000        \* setTimeout(tick, 30000)
DomStuckDelay == 60000
DomIdleDelay == 120000
DefaultDelay == 30            \* assistanceDelay || 30
MinDelay == 5                 \* Math.max(5, ...)
CodeThreshold == 6
ScrollThreshold == 4
ErrorThreshold == 5
MinCodeLength == 10
RetryDelay == 1000

DelayCeiling == 300
StoredDelays == (0 - MinDelay)..MaxStored   \* any integer may have been stored
DelayValues == {10, 30}   \* values given to assistanceDelay
Triggers == {"stuck_detection", "timer_based", "dom_analysis", "test_failed"}
PageTexts == {"none", "failed", "passed"}
OracleOutcomes == {"true", "false", "none"}   \* needs_assistance, or no response

Max(a, b) == IF a >= b THEN a ELSE b

----------------------------------------------------------------------------
(* Pure parts of the monitor *)

ZeroCounters ==
    [noCodeChange |-> 0, noScrollChange |-> 0, noClickChange |-> 0, errorCount |-> 0]

\* a verdict that also counts the polls without a click
isUserStuck_CountsClicks(sd) ==
    \/ sd.noCodeChange >= CodeThreshold
    \/ sd.noScrollChange >= ScrollThreshold
    \/ sd.noClickChange >= ScrollThreshold
    \/ sd.errorCount >= ErrorThreshold

\* a verdict that looks at errorCount only
isUserStuck_ErrorsOnly(sd) ==
    sd.errorCount >= ErrorThreshold

isUserStuck(sd) ==
    \/ sd.noCodeChange >= CodeThreshold
    \/ sd.noScrollChange >= ScrollThreshold
    \/ sd.errorCount >= ErrorThreshold

\* the patterns of detectSyntaxErrors: a text is known by its trimmed length and
\* by the patterns that match it
commonErrors == {"brace", "paren", "bracket", "quote", "def", "if", "for", "while"}

NoCode == [length |-> 0, matches |-> {}]

\* the texts the editor may hold
Codes ==
    {c \in [length : {0, MinCodeLength - 1, MinCodeLength},
            matches : SUBSET {"if"}] : c.length = 0 => c.matches = {}}

detectSyntaxErrors(code) == \E pattern \in commonErrors : pattern \in code.matches

checkCodeValidity(code) ==
    IF code.length < MinCodeLength THEN FALSE ELSE ~detectSyntaxErrors(code)

\* the part of the context that depends on the editor's text
getCurrentContext(code) == [userCode |-> [isWorking |-> checkCodeValidity(code)]]

\* Math.max(5, (assistanceDelay || 30)) * 1000
DelayMs(prefs) ==
    Max(MinDelay, IF prefs.assistanceDelay = 0 THEN DefaultDelay
                  ELSE prefs.assistanceDelay) * 1000

\* A pending timer.  id is the handle setInterval returned, 0 for the timers
\* whose handle the source discards (stuck poll, DOM analysis, test result).
Timer(id, kind, due, period) ==
    [id |-> id, kind |-> kind, due |-> due, period |-> period]

One(t) == SetToBag({t})

\* the handle of a new interval: the least id no pending timer has (the only
\* holder of an id is this.assistanceTimer, overwritten by the same statement)
FreshId(tms) ==
    CHOOSE n \in 1..(Cardinality(BagToSet(tms)) + 1) :
        /\ \A t \in BagToSet(tms) : t.id # n
        /\ \A m \in 1..(n - 1) : \E t \in BagToSet(tms) : t.id = m

clearInterval(tms, id) ==
    LET gone == {t \in BagToSet(tms) : t.id = id}
    IN  [t \in BagToSet(tms) \ gone |-> tms[t]]

OfKind(tms, kind) == {t \in BagToSet(tms) : t.kind = kind}

CountKind(tms, kind) == BagCardinality([t \in OfKind(tms, kind) |-> tms[t]])

\* an interval that ignores the preference and always uses the default period
startAssistanceTimer_DefaultPeriod(ts, prefs, clock) ==
    LET id == FreshId(ts.timers)
    IN  [timers |-> ts.timers (+)
                      One(Timer(id, "assistance", clock + DefaultDelay * 1000,
                                DefaultDelay * 1000)),
         handle |-> id]

\* ts = [timers, handle]: the timer table and this.assistanceTimer
startAssistanceTimer(ts, prefs, clock) ==
    LET id == FreshId(ts.timers)
    IN  [timers |-> ts.timers (+)
                      One(Timer(id, "assistance", clock + DelayMs(prefs), DelayMs(prefs))),
         handle |-> id]

resetAssistanceTimer(ts, prefs, clock) ==
    IF ts.handle # NULL
    THEN startAssistanceTimer(
             [timers |-> clearInterval(ts.timers, ts.handle), handle |-> ts.handle],
             prefs, clock)
    ELSE ts

startStuckDetection(tms, clock) ==
    tms (+) One(Timer(0, "stuck", clock + PollPeriod, PollPeriod))

startDomAnalysis(tms, clock) ==
    tms (+) One(Timer(0, "dom", clock + DomFirstDelay, 0))

startTestResultDetection(tms, clock) ==
    tms (+) One(Timer(0, "test", clock + TestPeriod, TestPeriod))

\* an interval that fired is due again one period later; a timeout is gone
Fired(tms, t) ==
    IF t.period > 0
    THEN (tms (-) One(t)) (+) One([t EXCEPT !.due = t.due + t.period])
    ELSE tms (-) One(t)

\* an analysis that fails open: anything but an explicit false asks for an offer
analyzeAssistanceNeed_FailOpen(outcome) == outcome # "false"

\* analyzeAssistanceNeed: response?.data?.needs_assistance || false, and false
\* when sendContextForAnalysis throws
analyzeAssistanceNeed(outcome) == outcome = "true"

Event(op, offer) == [op |-> op, offer |-> offer, oracle |-> "-", value |-> "-"]
OracleEvent(op, offer, outcome) ==
    [op |-> op, offer |-> offer, oracle |-> outcome, value |-> "-"]
Returned(op, result) ==
    [op |-> op, offer |-> "none", oracle |-> "-",
     value |-> IF result THEN "true" ELSE "false"]
\* the tick has sent its context to the Oracle
Sent(op, context) ==
    [op |-> op, offer |-> "none", oracle |-> "sent",
     value |-> IF context.userCode.isWorking THEN "true" ELSE "false"]

\* the page before the chat interface has set window.leetcoachChat
NoChat == [ready |-> FALSE, getHint |-> 0]

NoRun == [n |-> 0, activity |-> FALSE, passed |-> FALSE]

\* the instant at which a run of e inputs ends
Horizon(e) == (MaxTicks - EventCost * e) * PollPeriod

----------------------------------------------------------------------------
Init ==
    /\ initialized = FALSE
    /\ isMonitoring = FALSE
    /\ assistanceTimer = NULL
    /\ userPreferences = [assistanceDelay |-> 0]
    /\ lastActivity = 0
    /\ stuckDetection = ZeroCounters
    /\ timers = EmptyBag
    /\ pageText = "none"
    /\ userCode = NoCode
    /\ leetcoachChat = NoChat
    /\ events = 0
    /\ inFlight = [g \in {"timer_based", "dom_analysis"} |-> 0]
    /\ hidden = FALSE
    /\ now = 0
    /\ lastEvent = Event("constructor", "none")
    /\ lastOfferAt = Never
    /\ stuckOffers = 0
    /\ failRun = NoRun


----------------------------------------------------------------------------
(* Operations as functions of the state they touch *)

TS == [timers |-> timers, handle |-> assistanceTimer]

\* an offer that does not count itself in errorCount
triggerAssistance_NoCount(sd, ts, prefs, clock) ==
    [sd |-> sd, ts |-> resetAssistanceTimer(ts, prefs, clock)]

\* an offer that backs off: it starts errorCount again from zero
triggerAssistance_BacksOff(sd, ts, prefs, clock) ==
    [sd |-> [sd EXCEPT !.errorCount = 0],
     ts |-> resetAssistanceTimer(ts, prefs, clock)]

\* an offer that leaves the fixed-delay interval as it is
triggerAssistance_NoRestart(sd, ts, prefs, clock) ==
    [sd |-> [sd EXCEPT !.errorCount = @ + 1], ts |-> ts]

\* triggerAssistance: errorCount++ and resetAssistanceTimer(); the notification
\* it shows is recorded by the calling action in lastEvent
triggerAssistance(sd, ts, prefs, clock) ==
    [sd |-> [sd EXCEPT !.errorCount = @ + 1],
     ts |-> resetAssistanceTimer(ts, prefs, clock)]

\* a tryAssist that gives up when the chat is not there
tryAssist_GivesUp(chat, tms, clock) ==
    IF chat.ready
    THEN [chat |-> [chat EXCEPT !.getHint = @ + 1], timers |-> tms]
    ELSE [chat |-> chat, timers |-> tms]

\* tryAssist of triggerAssistance: getHint() now, or another try in a second
tryAssist(chat, tms, clock) ==
    IF chat.ready
    THEN [chat |-> [chat EXCEPT !.getHint = @ + 1], timers |-> tms]
    ELSE [chat |-> chat, timers |-> tms (+) One(Timer(0, "assist", clock + RetryDelay, 0))]

\* startMonitoring past its guard: the four timers, in the order of the source
startTimers(ts, prefs, clock) ==
    LET a  == startAssistanceTimer(ts, prefs, clock)
        t1 == startStuckDetection(a.timers, clock)
        t2 == startDomAnalysis(t1, clock)
        t3 == startTestResultDetection(t2, clock)
    IN  [timers |-> t3, handle |-> a.handle]

\* stopMonitoring on s = [mon, ts]
stopEffect(s) ==
    IF ~s.mon THEN s
    ELSE [mon |-> FALSE,
          ts  |-> IF s.ts.handle # NULL
                  THEN [timers |-> clearInterval(s.ts.timers, s.ts.handle),
                        handle |-> NULL]
                  ELSE s.ts]

\* a finally clause that always waits the longer delay
domReschedule_NoBackoff(tms, sd, clock) ==
    tms (+) One(Timer(0, "dom", clock + DomIdleDelay, 0))

\* the finally clause of the DOM-analysis tick
domReschedule(tms, sd, clock) ==
    tms (+) One(Timer(0, "dom",
                      clock + (IF isUserStuck(sd) THEN DomStuckDelay ELSE DomIdleDelay), 0))

Due(kind) == {t \in OfKind(timers, kind) : t.due <= now}

----------------------------------------------------------------------------
(* Actions *)

\* init(): loadPreferences, setupEventListeners, startMonitoring if autoActivate,
\* with the stored assistanceDelay one of delays
initWith(delays) ==
    /\ ~initialized
    /\ initialized' = TRUE
    /\ \E d \in delays, autoActivate \in BOOLEAN :
        /\ userPreferences' = [assistanceDelay |-> d]
        /\ IF autoActivate
           THEN /\ isMonitoring' = TRUE
                /\ lastActivity' = now
                /\ LET r == startTimers(TS, userPreferences', now)
                   IN  timers' = r.timers /\ assistanceTimer' = r.handle
           ELSE UNCHANGED <<isMonitoring, lastActivity, timers, assistanceTimer>>
    /\ lastEvent' = Event("init", "none")
    /\ UNCHANGED <<stuckDetection, pageText, userCode, leetcoachChat, events, inFlight,
                   hidden, now, lastOfferAt, stuckOffers, failRun>>

\* init() when the stored delay is one the settings panel offers
init == initWith(DelayValues)

\* init() when storage holds any integer
initStored == initWith(StoredDelays)

\* an input from the user or the page reaches the monitor
UserEvent ==
    /\ initialized
    /\ now <= Horizon(events + 1)
    /\ events' = events + 1

\* an activity that leaves errorCount as it is
updateActivity_KeepsErrorCount ==
    /\ UserEvent
    /\ lastActivity' = now
    /\ stuckDetection' = [ZeroCounters EXCEPT !.errorCount = stuckDetection.errorCount]
    /\ lastEvent' = Event("updateActivity", "none")
    /\ stuckOffers' = 0
    /\ failRun' = IF failRun.n > 0 THEN [failRun EXCEPT !.activity = TRUE] ELSE failRun
    /\ UNCHANGED <<userCode, leetcoachChat, initialized, isMonitoring, assistanceTimer, userPreferences,
                   timers, pageText, inFlight, hidden, now, lastOfferAt>>

\* an activity that leaves noCodeChange as it is
updateActivity_KeepsCodeCount ==
    /\ UserEvent
    /\ lastActivity' = now
    /\ stuckDetection' = [ZeroCounters EXCEPT !.noCodeChange = stuckDetection.noCodeChange]
    /\ lastEvent' = Event("updateActivity", "none")
    /\ stuckOffers' = 0
    /\ failRun' = IF failRun.n > 0 THEN [failRun EXCEPT !.activity = TRUE] ELSE failRun
    /\ UNCHANGED <<userCode, leetcoachChat, initialized, isMonitoring, assistanceTimer, userPreferences,
                   timers, pageText, inFlight, hidden, now, lastOfferAt>>

\* mousemove, keydown, click, scroll
updateActivity ==
    /\ UserEvent
    /\ lastActivity' = now
    /\ stuckDetection' = ZeroCounters
    /\ lastEvent' = Event("updateActivity", "none")
    /\ stuckOffers' = 0
    /\ failRun' = IF failRun.n > 0 THEN [failRun EXCEPT !.activity = TRUE] ELSE failRun
    /\ UNCHANGED <<userCode, leetcoachChat, initialized, isMonitoring, assistanceTimer, userPreferences,
                   timers, pageText, inFlight, hidden, now, lastOfferAt>>

\* a code change that resets every counter, as an activity does
onCodeChange_ResetsAll ==
    /\ UserEvent
    /\ lastActivity' = now
    /\ stuckDetection' = ZeroCounters
    /\ lastEvent' = Event("onCodeChange", "none")
    /\ stuckOffers' = 0
    /\ failRun' = NoRun
    /\ UNCHANGED <<userCode, leetcoachChat, initialized, isMonitoring, assistanceTimer, userPreferences,
                   timers, pageText, inFlight, hidden, now, lastOfferAt>>

\* a code change that forgets errorCount
onCodeChange_KeepsErrorCount ==
    /\ UserEvent
    /\ lastActivity' = now
    /\ stuckDetection' = [stuckDetection EXCEPT !.noCodeChange = 0]
    /\ lastEvent' = Event("onCodeChange", "none")
    /\ stuckOffers' = 0
    /\ failRun' = NoRun
    /\ UNCHANGED <<userCode, leetcoachChat, initialized, isMonitoring, assistanceTimer, userPreferences,
                   timers, pageText, inFlight, hidden, now, lastOfferAt>>

\* the MutationObserver on the editor, the editor then holding one of codes
onCodeChangeWith(codes) ==
    /\ UserEvent
    /\ userCode' \in codes
    /\ lastActivity' = now
    /\ stuckDetection' = [stuckDetection EXCEPT !.noCodeChange = 0, !.errorCount = 0]
    /\ lastEvent' = Event("onCodeChange", "none")
    /\ stuckOffers' = 0
    /\ failRun' = NoRun
    /\ UNCHANGED <<leetcoachChat, initialized, isMonitoring, assistanceTimer,
                   userPreferences, timers, pageText, inFlight, hidden, now, lastOfferAt>>

\* the editor's DOM changed and its text is as it was
onCodeChange == onCodeChangeWith({userCode})

\* the user typed: the editor holds another text
codeEdited == onCodeChangeWith(Codes \ {userCode})

\* a start without the isMonitoring guard
startMonitoring_NoGuard ==
    /\ UserEvent
    /\ CountKind(timers, "stuck") < MaxPolls
    /\ isMonitoring' = TRUE
    /\ lastActivity' = now
    /\ LET r == startTimers(TS, userPreferences, now)
       IN  timers' = r.timers /\ assistanceTimer' = r.handle
    /\ lastEvent' = Event("startMonitoring", "none")
    /\ stuckOffers' = 0
    /\ UNCHANGED <<userCode, leetcoachChat, initialized, userPreferences, stuckDetection, pageText, inFlight,
                   hidden, now, lastOfferAt, failRun>>

startMonitoring ==
    /\ UserEvent
    /\ IF isMonitoring
       THEN /\ lastEvent' = Event("startMonitoring", "noop")
            /\ UNCHANGED <<isMonitoring, lastActivity, timers, assistanceTimer,
                           stuckOffers>>
       ELSE /\ CountKind(timers, "stuck") < MaxPolls
            /\ isMonitoring' = TRUE
            /\ lastActivity' = now
            /\ LET r == startTimers(TS, userPreferences, now)
               IN  timers' = r.timers /\ assistanceTimer' = r.handle
            /\ lastEvent' = Event("startMonitoring", "none")
            /\ stuckOffers' = 0
    /\ UNCHANGED <<userCode, leetcoachChat, initialized, userPreferences, stuckDetection, pageText, inFlight,
                   hidden, now, lastOfferAt, failRun>>

stopMonitoring ==
    /\ UserEvent
    /\ LET r == stopEffect([mon |-> isMonitoring, ts |-> TS])
       IN  /\ isMonitoring' = r.mon
           /\ timers' = r.ts.timers
           /\ assistanceTimer' = r.ts.handle
    /\ lastEvent' = Event("stopMonitoring", IF isMonitoring THEN "none" ELSE "noop")
    /\ failRun' = NoRun
    /\ UNCHANGED <<userCode, leetcoachChat, initialized, userPreferences, lastActivity, stuckDetection,
                   pageText, inFlight, hidden, now, lastOfferAt, stuckOffers>>

\* visibilitychange with document.hidden: pauseMonitoring
pageHidden ==
    /\ UserEvent
    /\ ~hidden
    /\ hidden' = TRUE
    /\ timers' = IF assistanceTimer # NULL THEN clearInterval(timers, assistanceTimer)
                 ELSE timers
    /\ lastEvent' = Event("pauseMonitoring", "none")
    /\ UNCHANGED <<userCode, leetcoachChat, initialized, isMonitoring, assistanceTimer, userPreferences,
                   lastActivity, stuckDetection, pageText, inFlight, now,
                   lastOfferAt, stuckOffers, failRun>>

\* a resume that starts the counters afresh
pageVisible_ResetsCounters ==
    /\ UserEvent
    /\ hidden
    /\ hidden' = FALSE
    /\ LET r == IF isMonitoring /\ assistanceTimer = NULL
                THEN startAssistanceTimer(TS, userPreferences, now)
                ELSE TS
       IN  timers' = r.timers /\ assistanceTimer' = r.handle
    /\ stuckDetection' = ZeroCounters
    /\ lastEvent' = Event("resumeMonitoring", "none")
    /\ UNCHANGED <<userCode, leetcoachChat, initialized, isMonitoring, userPreferences, lastActivity,
                   pageText, inFlight, now, lastOfferAt, stuckOffers, failRun>>

\* a resume that starts the interval whether or not the monitor is Monitoring
pageVisible_StartsWhenIdle ==
    /\ UserEvent
    /\ hidden
    /\ hidden' = FALSE
    /\ LET r == IF assistanceTimer = NULL
                THEN startAssistanceTimer(TS, userPreferences, now)
                ELSE TS
       IN  timers' = r.timers /\ assistanceTimer' = r.handle
    /\ lastEvent' = Event("resumeMonitoring", "none")
    /\ UNCHANGED <<userCode, leetcoachChat, initialized, isMonitoring, userPreferences, lastActivity,
                   stuckDetection, pageText, inFlight, now, lastOfferAt,
                   stuckOffers, failRun>>

\* visibilitychange with the page visible again: resumeMonitoring
pageVisible ==
    /\ UserEvent
    /\ hidden
    /\ hidden' = FALSE
    /\ LET r == IF isMonitoring /\ assistanceTimer = NULL
                THEN startAssistanceTimer(TS, userPreferences, now)
                ELSE TS
       IN  timers' = r.timers /\ assistanceTimer' = r.handle
    /\ lastEvent' = Event("resumeMonitoring", "none")
    /\ UNCHANGED <<userCode, leetcoachChat, initialized, isMonitoring, userPreferences, lastActivity,
                   stuckDetection, pageText, inFlight, now, lastOfferAt,
                   stuckOffers, failRun>>

\* a change of preferences that also forgets the counters
updatePreferences_ResetsCounters ==
    /\ UserEvent
    /\ \E d \in DelayValues :
        /\ userPreferences' = [userPreferences EXCEPT !.assistanceDelay = d]
        /\ LET r == resetAssistanceTimer(TS, userPreferences', now)
           IN  timers' = r.timers /\ assistanceTimer' = r.handle
    /\ stuckDetection' = ZeroCounters
    /\ lastEvent' = Event("updatePreferences", "none")
    /\ UNCHANGED <<userCode, leetcoachChat, initialized, isMonitoring, lastActivity,
                   pageText, inFlight, hidden, now, lastOfferAt, stuckOffers, failRun>>

updatePreferences ==
    /\ UserEvent
    /\ \E d \in DelayValues :
        /\ userPreferences' = [userPreferences EXCEPT !.assistanceDelay = d]
        /\ LET r == resetAssistanceTimer(TS, userPreferences', now)
           IN  timers' = r.timers /\ assistanceTimer' = r.handle
    /\ lastEvent' = Event("updatePreferences", "none")
    /\ UNCHANGED <<userCode, leetcoachChat, initialized, isMonitoring, lastActivity, stuckDetection,
                   pageText, inFlight, hidden, now, lastOfferAt, stuckOffers, failRun>>

\* the page shows the result of a run, or clears it (document.body.innerText)
pageResult ==
    /\ UserEvent
    /\ \E text \in PageTexts \ {pageText} : pageText' = text
    /\ lastEvent' = Event("pageResult", "none")
    /\ failRun' = [failRun EXCEPT !.passed = FALSE]
    /\ UNCHANGED <<userCode, leetcoachChat, initialized, isMonitoring, assistanceTimer, userPreferences,
                   lastActivity, stuckDetection, timers, inFlight, hidden, now,
                   lastOfferAt, stuckOffers>>

\* a stuck poll that counts from 30 s of inactivity on, not from above 30 s
stuckPoll_AtThirty ==
    \E t \in Due("stuck") :
        LET fired == Fired(timers, t)
            sd1 == IF now - lastActivity >= InactivityWindow
                   THEN [stuckDetection EXCEPT !.noCodeChange = @ + 1,
                                               !.noScrollChange = @ + 1,
                                               !.noClickChange = @ + 1]
                   ELSE stuckDetection
        IN  /\ IF isMonitoring /\ isUserStuck(sd1)
               THEN LET r == triggerAssistance(sd1, [timers |-> fired, handle |-> assistanceTimer],
                                               userPreferences, now)
                    IN  /\ stuckDetection' = r.sd
                        /\ timers' = r.ts.timers
                        /\ assistanceTimer' = r.ts.handle
                        /\ lastEvent' = Event("stuckPoll", "stuck_detection")
                        /\ lastOfferAt' = now
                        /\ stuckOffers' = stuckOffers + 1
               ELSE /\ stuckDetection' = IF isMonitoring THEN sd1 ELSE stuckDetection
                    /\ timers' = fired
                    /\ lastEvent' = Event("stuckPoll", "none")
                    /\ UNCHANGED <<assistanceTimer, lastOfferAt, stuckOffers>>
            /\ UNCHANGED <<userCode, leetcoachChat, initialized, isMonitoring, userPreferences, lastActivity,
                           pageText, events, inFlight, hidden, now, failRun>>

\* a stuck poll that waits until no Oracle request is awaiting its answer
stuckPoll_AfterOracle ==
    /\ \A g \in DOMAIN inFlight : inFlight[g] = 0
    /\ \E t \in Due("stuck") :
           /\ timers' = Fired(timers, t)
           /\ stuckDetection' = IF isMonitoring /\ now - lastActivity > InactivityWindow
                                THEN [stuckDetection EXCEPT !.noCodeChange = @ + 1,
                                                            !.noScrollChange = @ + 1,
                                                            !.noClickChange = @ + 1]
                                ELSE stuckDetection
           /\ lastEvent' = Event("stuckPoll", "none")
    /\ UNCHANGED <<userCode, leetcoachChat, initialized, isMonitoring, assistanceTimer, userPreferences,
                   lastActivity, pageText, events, inFlight, hidden, now,
                   lastOfferAt, stuckOffers, failRun>>

\* the callback of startStuckDetection's interval
stuckPoll ==
    \E t \in Due("stuck") :
        LET fired == Fired(timers, t)
            sd1 == IF now - lastActivity > InactivityWindow
                   THEN [stuckDetection EXCEPT !.noCodeChange = @ + 1,
                                               !.noScrollChange = @ + 1,
                                               !.noClickChange = @ + 1]
                   ELSE stuckDetection
        IN  /\ IF isMonitoring /\ isUserStuck(sd1)
               THEN LET r == triggerAssistance(sd1, [timers |-> fired, handle |-> assistanceTimer],
                                               userPreferences, now)
                    IN  /\ stuckDetection' = r.sd
                        /\ timers' = r.ts.timers
                        /\ assistanceTimer' = r.ts.handle
                        /\ lastEvent' = Event("stuckPoll", "stuck_detection")
                        /\ lastOfferAt' = now
                        /\ stuckOffers' = stuckOffers + 1
               ELSE /\ stuckDetection' = IF isMonitoring THEN sd1 ELSE stuckDetection
                    /\ timers' = fired
                    /\ lastEvent' = Event("stuckPoll", "none")
                    /\ UNCHANGED <<assistanceTimer, lastOfferAt, stuckOffers>>
            /\ UNCHANGED <<userCode, leetcoachChat, initialized, isMonitoring, userPreferences, lastActivity,
                           pageText, events, inFlight, hidden, now, failRun>>

\* a continuation that offers every Oracle verdict as 'timer_based'
Settle_OneLabel(op, g, outcome, tms) ==
    LET needs == analyzeAssistanceNeed(outcome)
        ts == [timers |-> tms, handle |-> assistanceTimer]
        r == IF needs
             THEN triggerAssistance(stuckDetection, ts, userPreferences, now)
             ELSE [sd |-> stuckDetection, ts |-> ts]
    IN  /\ stuckDetection' = r.sd
        /\ assistanceTimer' = r.ts.handle
        /\ timers' = IF g = "dom_analysis"
                     THEN domReschedule(r.ts.timers, r.sd, now)
                     ELSE r.ts.timers
        /\ lastEvent' = OracleEvent(op, IF needs THEN "timer_based" ELSE "none", outcome)
        /\ lastOfferAt' = IF needs THEN now ELSE lastOfferAt

\* checkIfAssistanceNeeded and the DOM-analysis tick once analyzeAssistanceNeed
\* has settled with outcome: the offer if needed, then the tick's finally clause
Settle(op, g, outcome, tms) ==
    LET needs == analyzeAssistanceNeed(outcome)
        ts == [timers |-> tms, handle |-> assistanceTimer]
        r == IF needs
             THEN triggerAssistance(stuckDetection, ts, userPreferences, now)
             ELSE [sd |-> stuckDetection, ts |-> ts]
    IN  /\ stuckDetection' = r.sd
        /\ assistanceTimer' = r.ts.handle
        /\ timers' = IF g = "dom_analysis"
                     THEN domReschedule(r.ts.timers, r.sd, now)
                     ELSE r.ts.timers
        /\ lastEvent' = OracleEvent(op, IF needs THEN g ELSE "none", outcome)
        /\ lastOfferAt' = IF needs THEN now ELSE lastOfferAt

\* a fixed-delay check that offers at once when the editor's text is not valid
assistanceTick_OffersOnSyntax ==
    \E t \in Due("assistance"), sent \in BOOLEAN :
        /\ IF ~isMonitoring
           THEN /\ timers' = Fired(timers, t)
                /\ lastEvent' = Event("assistanceTick", "none")
                /\ UNCHANGED <<inFlight, stuckDetection, assistanceTimer, lastOfferAt>>
           ELSE IF sent /\ getCurrentContext(userCode).userCode.isWorking
           THEN /\ inFlight["timer_based"] < MaxInFlight
                /\ inFlight' = [inFlight EXCEPT !["timer_based"] = @ + 1]
                /\ timers' = Fired(timers, t)
                /\ lastEvent' = Sent("assistanceTick", getCurrentContext(userCode))
                /\ UNCHANGED <<stuckDetection, assistanceTimer, lastOfferAt>>
           ELSE IF sent
           THEN LET r == triggerAssistance(stuckDetection,
                                           [timers |-> Fired(timers, t),
                                            handle |-> assistanceTimer],
                                           userPreferences, now)
                IN  /\ stuckDetection' = r.sd
                    /\ timers' = r.ts.timers
                    /\ assistanceTimer' = r.ts.handle
                    /\ lastEvent' = Event("assistanceTick", "timer_based")
                    /\ lastOfferAt' = now
                    /\ UNCHANGED inFlight
           ELSE /\ Settle("assistanceTick", "timer_based", "threw", Fired(timers, t))
                /\ UNCHANGED inFlight
        /\ UNCHANGED <<userCode, leetcoachChat, initialized, isMonitoring, userPreferences, lastActivity,
                       pageText, events, hidden, now, stuckOffers, failRun>>

\* the callback of the fixed-delay interval: checkIfAssistanceNeeded up to the
\* await of the Oracle's answer; a sendMessage that throws is settled at once
assistanceTick ==
    \E t \in Due("assistance"), sent \in BOOLEAN :
        /\ IF ~isMonitoring
           THEN /\ timers' = Fired(timers, t)
                /\ lastEvent' = Event("assistanceTick", "none")
                /\ UNCHANGED <<inFlight, stuckDetection, assistanceTimer, lastOfferAt>>
           ELSE IF sent
           THEN /\ inFlight["timer_based"] < MaxInFlight
                /\ inFlight' = [inFlight EXCEPT !["timer_based"] = @ + 1]
                /\ timers' = Fired(timers, t)
                /\ lastEvent' = Sent("assistanceTick", getCurrentContext(userCode))
                /\ UNCHANGED <<stuckDetection, assistanceTimer, lastOfferAt>>
           ELSE /\ Settle("assistanceTick", "timer_based", "threw", Fired(timers, t))
                /\ UNCHANGED inFlight
        /\ UNCHANGED <<userCode, leetcoachChat, initialized, isMonitoring, userPreferences, lastActivity,
                       pageText, events, hidden, now, stuckOffers, failRun>>

\* the DOM-analysis timeout up to the await of the Oracle's answer
domTick ==
    \E t \in Due("dom"), sent \in BOOLEAN :
        /\ IF ~isMonitoring
           THEN /\ timers' = Fired(timers, t)
                /\ lastEvent' = Event("domTick", "none")
                /\ UNCHANGED <<inFlight, stuckDetection, assistanceTimer, lastOfferAt>>
           ELSE IF sent
           THEN /\ inFlight["dom_analysis"] < MaxInFlight
                /\ inFlight' = [inFlight EXCEPT !["dom_analysis"] = @ + 1]
                /\ timers' = Fired(timers, t)
                /\ lastEvent' = Sent("domTick", getCurrentContext(userCode))
                /\ UNCHANGED <<stuckDetection, assistanceTimer, lastOfferAt>>
           ELSE /\ Settle("domTick", "dom_analysis", "threw", Fired(timers, t))
                /\ UNCHANGED inFlight
        /\ UNCHANGED <<userCode, leetcoachChat, initialized, isMonitoring, userPreferences, lastActivity,
                       pageText, events, hidden, now, stuckOffers, failRun>>

\* the Oracle's answer arrives: the rest of checkIfAssistanceNeeded or of the
\* DOM-analysis tick; an answer of needs_assistance = true is an input of the run
oracleResponse ==
    \E g \in {"timer_based", "dom_analysis"}, outcome \in OracleOutcomes :
        /\ inFlight[g] > 0
        /\ inFlight' = [inFlight EXCEPT ![g] = @ - 1]
        /\ IF outcome = "true"
           THEN now <= Horizon(events + 1) /\ events' = events + 1
           ELSE UNCHANGED events
        /\ Settle("oracleResponse", g, outcome, timers)
        /\ UNCHANGED <<userCode, leetcoachChat, initialized, isMonitoring, userPreferences, lastActivity,
                       pageText, hidden, now, stuckOffers, failRun>>

\* the callback of startTestResultDetection's interval
testResultCheck ==
    \E t \in Due("test") :
        LET fired == [timers |-> Fired(timers, t), handle |-> assistanceTimer]
        IN  /\ IF isMonitoring /\ pageText = "failed"
               THEN LET r == triggerAssistance(stuckDetection, fired, userPreferences, now)
                    IN  /\ stuckDetection' = r.sd
                        /\ timers' = r.ts.timers
                        /\ assistanceTimer' = r.ts.handle
                        /\ lastEvent' = Event("testResultCheck", "test_failed")
                        /\ lastOfferAt' = now
                        /\ failRun' = IF failRun.n > 0
                                      THEN [failRun EXCEPT !.n = @ + 1]
                                      ELSE IF stuckDetection.errorCount = 0
                                      THEN [NoRun EXCEPT !.n = 1]
                                      ELSE NoRun
               ELSE LET r == IF isMonitoring /\ pageText = "passed"
                             THEN resetAssistanceTimer(fired, userPreferences, now)
                             ELSE fired
                    IN  /\ timers' = r.timers
                        /\ assistanceTimer' = r.handle
                        /\ lastEvent' = Event("testResultCheck",
                                               IF isMonitoring /\ pageText = "passed"
                                               THEN "solution_tab" ELSE "none")
                        /\ failRun' = [NoRun EXCEPT
                                          !.passed = isMonitoring /\ pageText = "passed"]
                        /\ UNCHANGED <<stuckDetection, lastOfferAt>>
            /\ UNCHANGED <<userCode, leetcoachChat, initialized, isMonitoring, userPreferences, lastActivity,
                           pageText, events, inFlight, hidden, now, stuckOffers>>

\* time passes when no pending callback is due
Advance ==
    /\ initialized
    /\ now < Horizon(events)
    /\ \A t \in BagToSet(timers) : t.due > now
    /\ now' = now + PollPeriod
    /\ lastEvent' = Event("Advance", "none")
    /\ UNCHANGED <<userCode, leetcoachChat, initialized, isMonitoring, assistanceTimer, userPreferences,
                   lastActivity, stuckDetection, timers, pageText, events, inFlight,
                   hidden, lastOfferAt, stuckOffers, failRun>>

Next ==
    \/ init
    \/ updateActivity
    \/ onCodeChange
    \/ startMonitoring
    \/ stopMonitoring
    \/ pageHidden
    \/ pageVisible
    \/ updatePreferences
    \/ pageResult
    \/ stuckPoll
    \/ assistanceTick
    \/ domTick
    \/ oracleResponse
    \/ testResultCheck
    \/ Advance

Spec == Init /\ [][Next]_vars

\* the values Date.now() may return
ClockReadings == {k * PollPeriod : k \in 0..MaxTicks}

\* the system clock is set, forwards or backwards: Date.now() returns another value
clockAdjusted ==
    /\ initialized
    /\ \E t \in ClockReadings \ {now} : now' = t
    /\ lastEvent' = Event("clockAdjusted", "none")
    /\ UNCHANGED <<userCode, leetcoachChat, initialized, isMonitoring, assistanceTimer, userPreferences,
                   lastActivity, stuckDetection, timers, pageText, events, inFlight,
                   hidden, lastOfferAt, stuckOffers, failRun>>

\* the user acts and starts or stops the monitor while the clock is being set;
\* now is the reading of Date.now()
ClockNext ==
    \/ init
    \/ updateActivity
    \/ onCodeChange
    \/ startMonitoring
    \/ stopMonitoring
    \/ clockAdjusted

ClockSpec == Init /\ [][ClockNext]_vars

\* the counter records isUserStuck() may find in this.stuckDetection
Counters ==
    [noCodeChange : 0..MaxCount, noScrollChange : 0..MaxCount,
     noClickChange : 0..MaxCount, errorCount : 0..MaxCount]

\* a monitor whose counters hold any of these records
CounterInit ==
    /\ initialized = FALSE
    /\ isMonitoring = FALSE
    /\ assistanceTimer = NULL
    /\ userPreferences = [assistanceDelay |-> 0]
    /\ lastActivity = 0
    /\ stuckDetection \in Counters
    /\ timers = EmptyBag
    /\ pageText = "none"
    /\ userCode = NoCode
    /\ leetcoachChat = NoChat
    /\ events = 0
    /\ inFlight = [g \in {"timer_based", "dom_analysis"} |-> 0]
    /\ hidden = FALSE
    /\ now = 0
    /\ lastEvent = Event("constructor", "none")
    /\ lastOfferAt = Never
    /\ stuckOffers = 0
    /\ failRun = NoRun

\* a call of isUserStuck() on the counters as they are
isUserStuckCall ==
    /\ lastEvent' = Returned("isUserStuck", isUserStuck(stuckDetection))
    /\ UNCHANGED <<userCode, leetcoachChat, initialized, isMonitoring, assistanceTimer, userPreferences,
                   lastActivity, stuckDetection, timers, pageText, events, inFlight,
                   hidden, now, lastOfferAt, stuckOffers, failRun>>

CounterSpec == CounterInit /\ [][isUserStuckCall]_vars

\* the user edits the code, acts or runs it while the timers tick
CodeNext ==
    \/ init
    \/ codeEdited
    \/ updateActivity
    \/ pageResult
    \/ stuckPoll
    \/ assistanceTick
    \/ domTick
    \/ oracleResponse
    \/ testResultCheck
    \/ Advance

CodeSpec == Init /\ [][CodeNext]_vars

\* init() with the autoAssistEnabled preference as stored; autoActivate is on
initAssist ==
    /\ ~initialized
    /\ initialized' = TRUE
    /\ \E d \in DelayValues, a \in BOOLEAN :
           userPreferences' = [assistanceDelay |-> d, autoAssistEnabled |-> a]
    /\ isMonitoring' = TRUE
    /\ lastActivity' = now
    /\ LET r == startTimers(TS, userPreferences', now)
       IN  timers' = r.timers /\ assistanceTimer' = r.handle
    /\ lastEvent' = Event("init", "none")
    /\ UNCHANGED <<stuckDetection, pageText, userCode, leetcoachChat, events, inFlight,
                   hidden, now, lastOfferAt, stuckOffers, failRun>>

\* triggerAssistance(triggerType) called by one of its four paths: the
\* notification, the automatic hint, errorCount++ and resetAssistanceTimer()
triggerAssistanceCall ==
    /\ initialized
    /\ events < MaxOffers
    /\ events' = events + 1
    /\ \E g \in Triggers :
           LET r == triggerAssistance(stuckDetection, TS, userPreferences, now)
               a == IF userPreferences.autoAssistEnabled
                    THEN tryAssist(leetcoachChat, r.ts.timers, now)
                    ELSE [chat |-> leetcoachChat, timers |-> r.ts.timers]
           IN  /\ stuckDetection' = r.sd
               /\ assistanceTimer' = r.ts.handle
               /\ timers' = a.timers
               /\ leetcoachChat' = a.chat
               /\ lastEvent' = Event("triggerAssistance", g)
    /\ lastOfferAt' = now
    /\ UNCHANGED <<userCode, initialized, isMonitoring, userPreferences, lastActivity,
                   pageText, inFlight, hidden, now, stuckOffers, failRun>>

\* the timeout of tryAssist: the next try
tryAssistRetry ==
    /\ \E t \in Due("assist") :
           LET a == tryAssist(leetcoachChat, Fired(timers, t), now)
           IN  timers' = a.timers /\ leetcoachChat' = a.chat
    /\ lastEvent' = Event("tryAssist", "none")
    /\ UNCHANGED <<userCode, initialized, isMonitoring, assistanceTimer, userPreferences,
                   lastActivity, stuckDetection, pageText, events, inFlight, hidden,
                   now, lastOfferAt, stuckOffers, failRun>>

\* the chat interface has set window.leetcoachChat
chatLoaded ==
    /\ initialized
    /\ ~leetcoachChat.ready
    /\ leetcoachChat' = [leetcoachChat EXCEPT !.ready = TRUE]
    /\ lastEvent' = Event("chatLoaded", "none")
    /\ UNCHANGED <<userCode, initialized, isMonitoring, assistanceTimer, userPreferences,
                   lastActivity, stuckDetection, timers, pageText, events, inFlight,
                   hidden, now, lastOfferAt, stuckOffers, failRun>>

\* a second passes when no try is due
AdvanceSecond ==
    /\ initialized
    /\ now < MaxRetries * RetryDelay
    /\ Due("assist") = {}
    /\ now' = now + RetryDelay
    /\ lastEvent' = Event("Advance", "none")
    /\ UNCHANGED <<userCode, leetcoachChat, initialized, isMonitoring, assistanceTimer,
                   userPreferences, lastActivity, stuckDetection, timers, pageText,
                   events, inFlight, hidden, lastOfferAt, stuckOffers, failRun>>

\* the calls of triggerAssistance and what becomes of their automatic hints,
\* second by second; the callbacks of the monitor's own timers, none of them due
\* before 5 s, are left to Spec
AssistNext ==
    \/ initAssist
    \/ triggerAssistanceCall
    \/ tryAssistRetry
    \/ chatLoaded
    \/ stopMonitoring
    \/ AdvanceSecond

AssistSpec == Init /\ [][AssistNext]_vars

\* the monitor is set up from storage and started or stopped by messages
DelayNext ==
    \/ initStored
    \/ startMonitoring
    \/ stopMonitoring

DelaySpec == Init /\ [][DelayNext]_vars

\* a callback that is due runs, or time passes
Tick == stuckPoll \/ assistanceTick \/ domTick \/ testResultCheck \/ Advance

\* the monitor with a user who may act, stop it or hide the page, and then is gone
LiveNext ==
    \/ init
    \/ updateActivity
    \/ stopMonitoring
    \/ pageHidden
    \/ stuckPoll
    \/ assistanceTick
    \/ domTick
    \/ oracleResponse
    \/ testResultCheck
    \/ Advance

\* the event loop never stops: while a callback is due or time can pass, one does
LiveSpec == Init /\ [][LiveNext]_vars /\ WF_vars(Tick)

----------------------------------------------------------------------------
(* Properties *)

Offered == lastEvent.offer \in Triggers

\* C1: once an offer has fired, no second offer fires before one more full
\* fixed-delay period has elapsed.
C1_Cooldown ==
    [][(lastEvent'.offer \in Triggers /\ lastOfferAt # Never)
          => now' - lastOfferAt >= DelayMs(userPreferences)]_vars

\* C2: a stopped monitor emits no offer: every offer is emitted while
\* isMonitoring is true.
C2_NoLateOffer == Offered => isMonitoring

\* C3: right after stopMonitoring() has stopped a running monitor, no timer of
\* any kind has a pending callback.
C3_StopClearsAllTimers ==
    lastEvent = Event("stopMonitoring", "none") => BagToSet(timers) = {}

\* C4: from every reachable state, stopMonitoring() twice gives the state that
\* stopMonitoring() once gives, and that state has no residual timer.
C4_StopIdempotent ==
    initialized =>
        LET once  == stopEffect([mon |-> isMonitoring, ts |-> TS])
            twice == stopEffect(once)
        IN  twice = once /\ BagToSet(once.ts.timers) = {}

\* C5: startMonitoring() while already Monitoring creates no timer and changes
\* neither lastActivity nor the counters.
C5_StartWhileMonitoringIsNoop ==
    [][(isMonitoring /\ lastEvent'.op = "startMonitoring")
          => UNCHANGED <<isMonitoring, assistanceTimer, timers, lastActivity,
                         stuckDetection>>]_vars

C5_Witness ==
    /\ lastEvent = Event("startMonitoring", "noop")
    /\ isMonitoring
    /\ now > lastActivity
    /\ BagToSet(timers) # {}

\* C6: whatever the counters were, a code mutation leaves noCodeChange = 0 and
\* errorCount = 0.
C6_CodeChangeResets ==
    lastEvent.op = "onCodeChange"
        => stuckDetection.noCodeChange = 0 /\ stuckDetection.errorCount = 0

\* the code mutation is the first input of a run in which the poll had counted
\* inactivity and an offer had raised errorCount
C6_Witness ==
    /\ lastEvent.op = "onCodeChange"
    /\ events = 1
    /\ stuckDetection.noScrollChange > 0
    /\ lastOfferAt # Never
    /\ stuckDetection.noCodeChange = 0
    /\ stuckDetection.errorCount = 0

\* the longest a monitor with no activity takes to judge the user stuck
DetectWithin == InactivityWindow + ScrollThreshold * PollPeriod

\* the run lasts long enough for a user inactive since lastActivity to be detected
RunLastsFor(e) == lastActivity + DetectWithin <= Horizon(e)

\* the user acted or stopped the monitor, or an input has shortened the run
Disturbed ==
    \/ lastEvent.op \in {"updateActivity", "onCodeChange", "stopMonitoring"}
    \/ ~RunLastsFor(events)

\* C7: while Monitoring, if no activity occurs any more and the timers keep
\* ticking, isUserStuck becomes true and an offer is emitted.
C7_Detection ==
    (isMonitoring /\ ~isUserStuck(stuckDetection) /\ RunLastsFor(events))
        ~> ((isUserStuck(stuckDetection) /\ Offered) \/ Disturbed)

C7_Witness ==
    /\ isMonitoring
    /\ isUserStuck(stuckDetection)
    /\ lastEvent.offer = "stuck_detection"
    /\ now - lastActivity >= DetectWithin
    /\ ~Disturbed

\* C8: a monitor started with zero counters that has polled six times on an
\* inactive user has noCodeChange = 6, judges the user stuck and has emitted
\* exactly one 'stuck_detection' offer.
C8_SixPollsOneOffer ==
    (events = 0 /\ isMonitoring /\ stuckDetection.noCodeChange = 6)
        => (isUserStuck(stuckDetection) /\ stuckOffers = 1)

\* C9 as claimed: five failing test-result ticks from errorCount = 0 with no
\* code mutation in between leave errorCount at 5 or more, and the fifth emits
\* a 'test_failed' offer.
C9_FiveFailures ==
    (lastEvent.op = "testResultCheck" /\ failRun.n = 5)
        => (stuckDetection.errorCount >= 5 /\ lastEvent.offer = "test_failed")

\* C9 amended: the same when no general activity event occurs in between either.
C9_FiveQuietFailures ==
    (lastEvent.op = "testResultCheck" /\ failRun.n = 5 /\ ~failRun.activity)
        => (stuckDetection.errorCount >= 5 /\ lastEvent.offer = "test_failed")

C9_Witness ==
    /\ lastEvent = Event("testResultCheck", "test_failed")
    /\ failRun = [NoRun EXCEPT !.n = 5]
    /\ stuckDetection.errorCount = 5
    /\ isMonitoring

\* C10: a fixed-delay or DOM-analysis tick whose Oracle call fails (throws or
\* gets no response) while the local verdict is false emits no offer.
C10_OracleFailureSilent ==
    [][(lastEvent'.oracle \in {"threw", "none"} /\ ~isUserStuck(stuckDetection))
          => (lastEvent'.offer = "none" /\ lastOfferAt' = lastOfferAt
              /\ stuckDetection' = stuckDetection)]_vars

C10_Witness ==
    /\ lastEvent.oracle \in {"threw", "none"}
    /\ lastEvent.offer = "none"
    /\ isMonitoring
    /\ ~isUserStuck(stuckDetection)

\* a fixed-delay check comes to its decision in this step: its Oracle call threw,
\* or the Oracle's answer to it arrived
TimerCheckSettles ==
    \/ lastEvent'.op = "assistanceTick" /\ lastEvent'.oracle = "threw"
    \/ lastEvent'.op = "oracleResponse" /\ inFlight'["timer_based"] < inFlight["timer_based"]

\* C11: a fixed-delay check made while Monitoring emits a timer_based offer
\* exactly when the local verdict isUserStuck is true or the Oracle answered
\* needs_assistance = true.
C11_LocalOrOracle ==
    [][(isMonitoring /\ TimerCheckSettles)
          => (lastEvent'.offer = "timer_based"
                <=> (isUserStuck(stuckDetection) \/ lastEvent'.oracle = "true"))]_vars

\* the pending fixed-delay intervals of a timer table
Assistance(tms) == OfKind(tms, "assistance")

OtherTimers(tms) == [t \in BagToSet(tms) \ Assistance(tms) |-> tms[t]]

\* C13: updatePreferences changes the preferences and the fixed-delay interval
\* only: the four counters, lastActivity, isMonitoring and the other timers
\* are as before.
C13_PreferencesFrame ==
    [][lastEvent'.op = "updatePreferences"
          => /\ UNCHANGED <<stuckDetection, lastActivity, isMonitoring>>
             /\ OtherTimers(timers') = OtherTimers(timers)]_vars

C13_Witness ==
    /\ lastEvent.op = "updatePreferences"
    /\ isMonitoring
    /\ stuckDetection.errorCount > 0
    /\ now > lastActivity
    /\ Assistance(timers) # {}

\* C14: neither pauseMonitoring (page hidden) nor resumeMonitoring (page visible
\* again) changes any of the four counters, also right after an offer.
C14_PauseResumeKeepCounters ==
    [][lastEvent'.op \in {"pauseMonitoring", "resumeMonitoring"}
          => UNCHANGED stuckDetection]_vars

\* the page was hidden and is visible again after an offer had raised errorCount
C14_Witness ==
    /\ lastEvent.op = "resumeMonitoring"
    /\ isMonitoring
    /\ stuckDetection.errorCount > 0
    /\ lastOfferAt # Never

\* C15: after resumeMonitoring (page visible again) on a Monitoring monitor the
\* fixed-delay interval is running, with its next check at most one period away.
C15_ResumeRestartsTimer ==
    (lastEvent.op = "resumeMonitoring" /\ isMonitoring)
        => \E t \in Assistance(timers) : t.due <= now + DelayMs(userPreferences)

\* Monitoring with the page hidden
Paused == isMonitoring /\ hidden

\* C16: while Paused no fixed-delay check runs, the stuck poll increments no
\* counter, and neither a stuck_detection nor a timer_based offer is emitted.
C16_PausedSuspendsTimers ==
    [][(Paused /\ hidden')
          => /\ lastEvent'.op # "assistanceTick"
             /\ lastEvent'.op = "stuckPoll" => stuckDetection' = stuckDetection
             /\ lastEvent'.offer \notin {"stuck_detection", "timer_based"}]_vars

Min(a, b) == IF a <= b THEN a ELSE b

\* the delay within the valid range of 5 to 300 seconds
Clamped(d) == Min(DelayCeiling, Max(MinDelay, d))

\* C17: whatever integer the assistanceDelay preference holds, the period of the
\* fixed-delay interval is that value clamped to 5..300 seconds.
C17_DelayClamped ==
    \A t \in Assistance(timers) :
        t.period = Clamped(userPreferences.assistanceDelay) * 1000

TimerKinds == {"assistance", "stuck", "dom", "test"}

\* C18: right after startMonitoring has taken the monitor from Idle to
\* Monitoring all four counters are 0 and a timer of each kind is scheduled.
C18_StartResetsAndSchedules ==
    lastEvent = Event("startMonitoring", "none")
        => /\ stuckDetection = ZeroCounters
           /\ \A k \in TimerKinds : OfKind(timers, k) # {}

\* C19: once a test-result check has seen the passed result, and while the page
\* still shows it and the code is not edited, no offer is emitted; the check
\* that sees the passed result signals the other solutions instead.
C19_PassedSuppressesOffers ==
    [][/\ (failRun.passed /\ pageText' = "passed" /\ lastEvent'.op # "onCodeChange")
            => lastEvent'.offer \notin Triggers
       /\ (lastEvent'.op = "testResultCheck" /\ failRun'.passed)
            => lastEvent'.offer = "solution_tab"]_vars

\* C20: lastActivity never decreases, whatever Date.now() returns when an
\* activity event, a code mutation or a start records it.
C20_LastActivityMonotonic ==
    [][lastActivity' >= lastActivity]_vars

\* an input reached the monitor in the last step
InputTaken ==
    \/ lastEvent.op \in {"updateActivity", "onCodeChange", "startMonitoring",
                         "stopMonitoring", "pauseMonitoring", "resumeMonitoring",
                         "updatePreferences", "pageResult"}
    \/ lastEvent.oracle = "true"

PollIncrement ==
    IF lastEvent'.op = "stuckPoll" /\ now - lastActivity > InactivityWindow THEN 1 ELSE 0

\* C22: an offer made while Monitoring adds exactly 1 to errorCount, leaves the
\* other three counters as the tick found or incremented them, restarts the
\* fixed-delay interval so that its next check is one full period after the
\* offer, and leaves the monitor Monitoring.
C22_OfferEffects ==
    [][(isMonitoring /\ lastEvent'.offer \in Triggers)
          => /\ stuckDetection' =
                   [noCodeChange   |-> stuckDetection.noCodeChange + PollIncrement,
                    noScrollChange |-> stuckDetection.noScrollChange + PollIncrement,
                    noClickChange  |-> stuckDetection.noClickChange + PollIncrement,
                    errorCount     |-> stuckDetection.errorCount + 1]
             /\ isMonitoring'
             /\ CountKind(timers', "assistance") = 1
             /\ \A t \in Assistance(timers') :
                    /\ t.id = assistanceTimer'
                    /\ t.due = now' + DelayMs(userPreferences')]_vars

\* the stuck poll has just offered for the first time: the interval that was
\* due sooner is now due one period after the offer
C22_Witness ==
    /\ lastEvent.offer = "stuck_detection"
    /\ isMonitoring
    /\ stuckDetection.errorCount = 1
    /\ stuckDetection.noScrollChange = ScrollThreshold
    /\ userPreferences.assistanceDelay = 30
    /\ \E t \in Assistance(timers) : t.due = now + 30000

\* an Oracle request of a fixed-delay or DOM-analysis tick awaits its answer
Awaiting == \E g \in DOMAIN inFlight : inFlight[g] > 0

\* C23: while an Oracle request awaits its answer nothing else is held back: a
\* stuck poll or test-result check that is due can run, and an activity event
\* the run still has room for is processed.
C23_OracleDoesNotBlock ==
    Awaiting =>
        /\ Due("stuck") # {} => ENABLED stuckPoll
        /\ Due("test") # {} => ENABLED testResultCheck
        /\ (initialized /\ now <= Horizon(events + 1)) => ENABLED updateActivity

\* with the fixed-delay check's request still unanswered, the stuck poll has
\* counted the user's inactivity and made an offer
C23_Witness ==
    /\ inFlight["timer_based"] > 0
    /\ lastEvent.offer = "stuck_detection"
    /\ stuckDetection.noScrollChange >= ScrollThreshold

\* C24: isUserStuck() returns true exactly when noCodeChange >= 6 or
\* noScrollChange >= 4 or errorCount >= 5; the value of noClickChange makes no
\* difference to the result, and with all counters at zero the result is false.
C24_VerdictFormula ==
    lastEvent.op = "isUserStuck"
        => /\ lastEvent.value = "true"
                 <=> \/ stuckDetection.noCodeChange >= 6
                     \/ stuckDetection.noScrollChange >= 4
                     \/ stuckDetection.errorCount >= 5
           /\ \A c \in 0..MaxCount :
                  isUserStuck([stuckDetection EXCEPT !.noClickChange = c])
                      <=> lastEvent.value = "true"
           /\ stuckDetection = ZeroCounters => lastEvent.value = "false"

\* every counter that is looked at is one below its threshold and noClickChange
\* is far above any of them: the call returned false
C24_Witness ==
    /\ lastEvent.value = "false"
    /\ stuckDetection = [noCodeChange |-> 5, noScrollChange |-> 3,
                         noClickChange |-> MaxCount, errorCount |-> 4]

\* C25: a stuck-poll tick while Monitoring adds 1 to noCodeChange, noScrollChange
\* and noClickChange when now - lastActivity is strictly above 30 s and leaves
\* them alone otherwise; errorCount moves only with an offer; the verdict is
\* taken on the counters after the increment, and a positive one is offered as
\* 'stuck_detection'.
C25_PollCountsThenJudges ==
    [][(isMonitoring /\ lastEvent'.op = "stuckPoll")
          => LET inc == IF now - lastActivity > 30000 THEN 1 ELSE 0
                 counted == [noCodeChange   |-> stuckDetection.noCodeChange + inc,
                             noScrollChange |-> stuckDetection.noScrollChange + inc,
                             noClickChange  |-> stuckDetection.noClickChange + inc,
                             errorCount     |-> stuckDetection.errorCount]
             IN  IF isUserStuck(counted)
                 THEN /\ lastEvent'.offer = "stuck_detection"
                      /\ stuckDetection' = [counted EXCEPT !.errorCount = @ + 1]
                 ELSE /\ lastEvent'.offer = "none"
                      /\ stuckDetection' = counted]_vars

\* the first poll that counted ran 35 s after the last activity: the poll at
\* exactly 30 s counted nothing
C25_Witness ==
    /\ isMonitoring
    /\ lastEvent.op = "stuckPoll"
    /\ now - lastActivity = 35000
    /\ stuckDetection = [noCodeChange |-> 1, noScrollChange |-> 1,
                         noClickChange |-> 1, errorCount |-> 0]

\* the DOM-analysis tick reached its finally clause in the last step
DomTickEnds ==
    \/ isMonitoring /\ lastEvent'.op = "domTick" /\ lastEvent'.oracle = "threw"
    \/ lastEvent'.op = "oracleResponse" /\ inFlight'["dom_analysis"] < inFlight["dom_analysis"]

\* the DOM-analysis timeouts a step leaves minus those it found, the one that
\* fired in the step not counted
DomScheduled ==
    CountKind(timers', "dom")
        - (CountKind(timers, "dom") - IF lastEvent'.op = "domTick" THEN 1 ELSE 0)

\* C26: a DOM-analysis tick that ran while Monitoring schedules exactly one next
\* tick when it ends, whatever the Oracle did: 60 s later if isUserStuck() holds
\* at that moment, 120 s later otherwise; until it ends, and when it finds the
\* monitor not Monitoring, it schedules nothing.
C26_DomBackoff ==
    [][/\ DomTickEnds
          => LET next == Timer(0, "dom",
                               now + (IF isUserStuck(stuckDetection') THEN 60000 ELSE 120000),
                               0)
             IN  /\ DomScheduled = 1
                 /\ CopiesIn(next, timers') = CopiesIn(next, timers) + 1
       /\ (lastEvent'.op = "domTick" /\ ~DomTickEnds) => DomScheduled = 0]_vars

\* the Oracle call of a tick threw while the user was stuck: the next tick is
\* 60 s away
C26_Witness ==
    /\ lastEvent.op = "domTick"
    /\ lastEvent.oracle = "threw"
    /\ isUserStuck(stuckDetection)
    /\ \E t \in OfKind(timers, "dom") : t.due = now + 60000

\* the trigger that names the path the last step ran on
PathTrigger ==
    CASE lastEvent'.op = "stuckPoll" -> "stuck_detection"
      [] lastEvent'.op = "testResultCheck" -> "test_failed"
      [] lastEvent'.op = "assistanceTick" -> "timer_based"
      [] lastEvent'.op = "domTick" -> "dom_analysis"
      [] lastEvent'.op = "oracleResponse" ->
             IF inFlight'["dom_analysis"] < inFlight["dom_analysis"]
             THEN "dom_analysis" ELSE "timer_based"
      [] OTHER -> "no path"

\* C27: every offer carries one of the four triggers, and the trigger names the
\* path that made the offer: the stuck poll 'stuck_detection', the fixed-delay
\* check 'timer_based', the DOM-analysis tick 'dom_analysis', the test-result
\* check on a failure marker 'test_failed'.
C27_TriggerNamesPath ==
    [][/\ stuckDetection'.errorCount > stuckDetection.errorCount
             => lastEvent'.offer \in Triggers
       /\ lastEvent'.offer \in Triggers
             => /\ lastEvent'.offer = PathTrigger
                /\ lastEvent'.offer = "test_failed" => pageText = "failed"
                /\ stuckDetection'.errorCount > stuckDetection.errorCount]_vars

\* the Oracle answered the request of a DOM-analysis tick with true
C27_Witness ==
    /\ lastEvent.op = "oracleResponse"
    /\ lastEvent.oracle = "true"
    /\ lastEvent.offer = "dom_analysis"

\* the verdict the stuck poll of the last step took on its counters
PollVerdict ==
    /\ lastEvent'.op = "stuckPoll"
    /\ isUserStuck([stuckDetection' EXCEPT !.errorCount = stuckDetection.errorCount])

\* C28: what detectSyntaxErrors and checkCodeValidity find in the user's code
\* travels in the context sent to the Oracle and does nothing else: the tick that
\* computes it changes no counter and offers nothing, a new text moves the
\* counters as any code change does, whatever the heuristic says of it, and an
\* offer always has its own cause: the stuck poll's verdict on the counters, a
\* failure marker on the page, or the Oracle's answer.
C28_SyntaxHeuristicAdvisory ==
    [][/\ lastEvent'.oracle = "sent"
          => /\ lastEvent'.value = "true"
                   <=> /\ userCode.length >= 10
                       /\ userCode.matches = {}
             /\ lastEvent'.offer = "none"
             /\ stuckDetection' = stuckDetection
       /\ userCode' # userCode
          => stuckDetection' = [stuckDetection EXCEPT !.noCodeChange = 0, !.errorCount = 0]
       /\ lastEvent'.offer \in Triggers
          => \/ PollVerdict
             \/ lastEvent'.op = "testResultCheck" /\ pageText = "failed"
             \/ lastEvent'.oracle = "true"]_vars

\* the fixed-delay check found a text that detectSyntaxErrors flags, sent it in
\* the context and left the counters at zero
C28_Witness ==
    /\ lastEvent.op = "assistanceTick"
    /\ lastEvent.oracle = "sent"
    /\ lastEvent.value = "false"
    /\ userCode.length >= MinCodeLength
    /\ detectSyntaxErrors(userCode)
    /\ stuckDetection = ZeroCounters
    /\ lastOfferAt = Never

\* C29: whatever the sequence of starts, stops, pauses, resumes, preference
\* changes and offers, at most one timer of each kind is pending: one fixed-delay
\* interval, one stuck poll, one DOM-analysis timeout, one test-result check.
C29_OneTimerPerKind ==
    \A k \in TimerKinds : CountKind(timers, k) <= 1

\* C30: the fixed-delay interval is suspended for as long as the monitor is
\* Paused, whatever happens in between, and the assistanceTimer handle is
\* non-null exactly when the interval it names is running.
C30_PausedKeepsTimerOff ==
    /\ Paused => Assistance(timers) = {}
    /\ assistanceTimer # NULL <=> \E t \in Assistance(timers) : t.id = assistanceTimer

\* C31: in every reachable state the four counters are non-negative,
\* noScrollChange equals noClickChange and noCodeChange is at most
\* noScrollChange; so whenever noCodeChange >= 6, noScrollChange >= 4 as well.
C31_CounterOrder ==
    /\ \A f \in DOMAIN stuckDetection : stuckDetection[f] \in Nat
    /\ stuckDetection.noScrollChange = stuckDetection.noClickChange
    /\ stuckDetection.noCodeChange <= stuckDetection.noScrollChange
    /\ stuckDetection.noCodeChange >= 6 => stuckDetection.noScrollChange >= 4

\* the polls have counted up to the code threshold
C31_Witness ==
    /\ stuckDetection.noCodeChange >= CodeThreshold
    /\ stuckDetection.noScrollChange >= CodeThreshold
    /\ lastEvent.op = "stuckPoll"

\* the three inactivity counters of a counter record are zero
NoInactivity(sd) ==
    sd.noCodeChange = 0 /\ sd.noScrollChange = 0 /\ sd.noClickChange = 0

\* C32: a general activity event zeroes all four counters and sets lastActivity
\* to the current time, so isUserStuck() is false right after it; and from then
\* on, up to 30 s after the last activity, no step raises an inactivity counter,
\* so the verdict can only become positive through errorCount reaching 5.
C32_ActivityResetsVerdict ==
    [][/\ lastEvent'.op = "updateActivity"
          => /\ stuckDetection' = [noCodeChange |-> 0, noScrollChange |-> 0,
                                   noClickChange |-> 0, errorCount |-> 0]
             /\ lastActivity' = now'
             /\ ~isUserStuck(stuckDetection')
       /\ (NoInactivity(stuckDetection) /\ now - lastActivity <= 30000)
          => /\ NoInactivity(stuckDetection')
             /\ isUserStuck(stuckDetection') => stuckDetection'.errorCount >= 5]_vars

\* the user moved after the stuck poll had counted and offered
C32_Witness ==
    /\ lastEvent.op = "updateActivity"
    /\ events = 1
    /\ lastOfferAt # Never
    /\ stuckDetection = ZeroCounters
    /\ lastActivity = now

\* C33: a code-mutation event changes noCodeChange, errorCount and lastActivity
\* and nothing else of the monitor: noScrollChange and noClickChange keep their
\* values, so with noScrollChange >= 4 the user is still judged stuck right
\* after the edit.
C33_CodeChangeFrame ==
    [][lastEvent'.op = "onCodeChange"
          => /\ stuckDetection'.noScrollChange = stuckDetection.noScrollChange
             /\ stuckDetection'.noClickChange = stuckDetection.noClickChange
             /\ UNCHANGED <<isMonitoring, assistanceTimer, userPreferences, timers>>
             /\ stuckDetection.noScrollChange >= 4 => isUserStuck(stuckDetection')]_vars

\* the user edited the code after four polls without activity: the verdict is
\* still positive
C33_Witness ==
    /\ lastEvent.op = "onCodeChange"
    /\ stuckDetection.noCodeChange = 0
    /\ stuckDetection.errorCount = 0
    /\ stuckDetection.noScrollChange >= ScrollThreshold
    /\ isUserStuck(stuckDetection)

\* the steps that are a timer callback or the rest of one
TimerSteps == {"stuckPoll", "testResultCheck", "domTick", "assistanceTick", "oracleResponse"}

\* C34: while the monitor is Idle a timer callback changes nothing: it leaves the
\* counters, lastActivity and the assistanceTimer handle as they are and emits
\* nothing; in Idle only activity events change the counters.
C34_IdleTicksChangeNothing ==
    [][~isMonitoring
          => /\ lastEvent'.op \in TimerSteps
                => /\ UNCHANGED <<stuckDetection, lastActivity, assistanceTimer>>
                   /\ lastEvent'.offer \notin Triggers \cup {"solution_tab"}
             /\ stuckDetection' # stuckDetection
                => lastEvent'.op \in {"updateActivity", "onCodeChange"}]_vars

\* init() found autoActivate off and startMonitoring() has not been called since
NeverStarted ==
    initialized /\ ~isMonitoring /\ assistanceTimer = NULL /\ timers = EmptyBag

\* C35: a monitor that init() left Idle stays Idle until startMonitoring() is
\* called: no activity event, visibility change, preference change or page
\* result starts a timer, emits an offer or sets isMonitoring.
C35_IdleUntilStarted ==
    [][(NeverStarted /\ lastEvent'.op # "startMonitoring")
          => /\ ~isMonitoring'
             /\ assistanceTimer' = NULL
             /\ timers' = EmptyBag
             /\ lastEvent'.offer \notin Triggers]_vars

\* the page was hidden and shown again and the preferences were changed, and the
\* monitor is as init() left it
C35_Witness ==
    /\ NeverStarted
    /\ lastEvent.op = "updatePreferences"
    /\ events >= 3
    /\ ~hidden
    /\ lastOfferAt = Never

\* C36: offers escalate: every offer adds 1 to errorCount, only an activity or
\* code-mutation event lowers it, and once it has reached 5 every stuck-poll tick
\* of a Monitoring monitor finds isUserStuck() true and offers again, whatever
\* the inactivity counters are.
C36_OffersEscalate ==
    [][/\ lastEvent'.offer \in Triggers
          => stuckDetection'.errorCount = stuckDetection.errorCount + 1
       /\ lastEvent'.op \notin {"updateActivity", "onCodeChange"}
          => stuckDetection'.errorCount >= stuckDetection.errorCount
       /\ (stuckDetection.errorCount >= 5 /\ lastEvent'.op \notin {"updateActivity", "onCodeChange"})
          => isUserStuck(stuckDetection')
       /\ (stuckDetection.errorCount >= 5 /\ isMonitoring /\ lastEvent'.op = "stuckPoll")
          => lastEvent'.offer = "stuck_detection"]_vars

\* five offers have raised errorCount to 5 within 30 s of the last activity, and
\* the stuck poll has offered with its inactivity counters at zero
C36_Witness ==
    /\ lastEvent.op = "stuckPoll"
    /\ lastEvent.offer = "stuck_detection"
    /\ NoInactivity(stuckDetection)
    /\ stuckDetection.errorCount > ErrorThreshold

\* the pending tries of tryAssist in a timer table
Retries(tms) == CountKind(tms, "assist")

\* the step made getHint() be called once, at once
HintNow ==
    /\ leetcoachChat'.getHint = leetcoachChat.getHint + 1
    /\ \A t \in OfKind(timers', "assist") : CopiesIn(t, timers') <= CopiesIn(t, timers)

\* the step called getHint() not at all and left one more try, a second away,
\* than the tries it did not itself use up
TryLater(used) ==
    /\ leetcoachChat'.getHint = leetcoachChat.getHint
    /\ Retries(timers') = Retries(timers) - used + 1
    /\ CopiesIn(Timer(0, "assist", now + 1000, 0), timers')
           = CopiesIn(Timer(0, "assist", now + 1000, 0), timers) + 1

\* C37: with autoAssistEnabled off an offer calls getHint() never and leaves no
\* try behind; with it on, each offer calls getHint() once at once if the chat
\* is there and otherwise leaves one try a second later, each try doing the
\* same; no other step, stopMonitoring() included, calls getHint() or touches
\* the pending tries.
C37_AutoAssistPerOffer ==
    [][/\ lastEvent'.offer \in Triggers
          => IF ~userPreferences.autoAssistEnabled
             THEN leetcoachChat' = leetcoachChat /\ Retries(timers') = 0
             ELSE IF leetcoachChat.ready
             THEN HintNow /\ Retries(timers') = Retries(timers)
             ELSE TryLater(0)
       /\ lastEvent'.op = "tryAssist"
          => IF leetcoachChat.ready
             THEN HintNow /\ Retries(timers') = Retries(timers) - 1
             ELSE TryLater(1)
       /\ (lastEvent'.offer \notin Triggers /\ lastEvent'.op # "tryAssist")
          => /\ leetcoachChat'.getHint = leetcoachChat.getHint
             /\ \A t \in OfKind(timers, "assist") \cup OfKind(timers', "assist") :
                    CopiesIn(t, timers') = CopiesIn(t, timers)]_vars

\* the monitor was stopped while a try was pending, and the try has since found
\* the chat and called getHint()
C37_Witness ==
    /\ lastEvent.op = "tryAssist"
    /\ ~isMonitoring
    /\ events = 2
    /\ leetcoachChat.getHint = 1
    /\ Retries(timers) = 0
    /\ lastOfferAt = 0
    /\ now >= 2 * RetryDelay

====
